---- MODULE Spec2Model ----
(***************************************************************************)
(* A model of the cgol crate: the Cell enum (src/src/cell) and the Game    *)
(* struct with its constructor, tick(), accessors, views and bulk          *)
(* operations (src/src/game).                                              *)
(*                                                                         *)
(* A Vec<Cell> is a TLA+ sequence; the code's 0-based index i is position  *)
(* i + 1 of the sequence (see At / SetAt).                                 *)
(*                                                                         *)
(* A panic leaves the Game as it was and is recorded in ret.               *)
(* fill_random (compiled only with the use-rand feature) is not modelled:  *)
(* it overwrites every cell, and every grid content it can produce is      *)
(* produced by cell writes.  Running out of memory is not modelled either. *)
(***************************************************************************)
EXTENDS Integers, Sequences, FiniteSets, TLC

VARIABLES
    width,   \* Game.width
    height,  \* Game.height
    cells,   \* Game.cells, the primary buffer
    next,    \* Game.next, the scratch buffer of tick()
    op,      \* name of the last operation called ("none" before the first)
    args,    \* arguments of the last call when it was the constructor, a read or a
             \* conversion; <<>> after a mutating call
    ret,     \* what the last operation returned, or the panic it raised
    frame    \* tick()'s position when it is modelled step by step: pc and the
             \* loop's row, col and current_index; Idle outside tick()

vars == <<width, height, cells, next, op, args, ret, frame>>

-----------------------------------------------------------------------------
(* Bounds of the model *)

\* largest width and largest height of a Game the model constructs
MaxDim == 3
\* largest width * height of a Game the model constructs
MaxArea == 9
\* largest width * height where every mutating call and every read is explored
MaxOpsArea == 6
\* largest width and height of the grids a 2x2 block is placed on
MaxBlockDim == 4
\* largest width and height for which the neighbor offsets are enumerated
MaxNbrDim == 5
\* bits of the machine word (usize / isize) in the model of Game::new
WordBits == 6
\* bits of the integer types in the model of the Cell conversions
IntBits == 6

UsizeMax == 2^WordBits - 1
IsizeMax == 2^(WordBits - 1) - 1

-----------------------------------------------------------------------------
(* Cell: src/src/cell/mod.rs *)

Dead == "Dead"
Alive == "Alive"
Cell == {Dead, Alive}

\* `cell as u8` and `c as $i`: the enum's discriminant (Dead = 0, Alive = 1)
CellAsInt(c) == IF c = Alive THEN 1 ELSE 0

\* impl Not for Cell
NotCell(c) == IF c = Alive THEN Dead ELSE Alive

\* a plausible slip: "nonzero" instead of "> 0"
CellFromIntNonzero(i) == IF i # 0 THEN Alive ELSE Dead

\* impl From<$i> for Cell (integers! macro): Alive iff i > 0
CellFromInt(i) == IF i > 0 THEN Alive ELSE Dead

\* impl From<Cell> for $i (integers! macro)
IntFromCell(c) == CellAsInt(c)

\* the values of the model's integer types
IntType == {"unsigned", "signed"}
IntValues(ty) ==
    IF ty = "unsigned" THEN 0 .. (2^IntBits - 1)
    ELSE (0 - 2^(IntBits - 1)) .. (2^(IntBits - 1) - 1)

-----------------------------------------------------------------------------
(* Vec helpers *)

At(v, i) == v[i + 1]
SetAt(v, i, x) == [v EXCEPT ![i + 1] = x]
\* vec![x; n]
Repeat(x, n) == [k \in 1 .. n |-> x]
\* &v[begin..end]
Slice(v, begin, end) == SubSeq(v, begin + 1, end)

-----------------------------------------------------------------------------
(* Return values.  kind is "unit", "some", "none", "cells", "int", "game"  *)
(* or "panic"; val holds the cells returned, num the integer returned or   *)
(* the offending index of a panic, msg the panic message's fixed part.     *)

Ret(kind, val, num, msg) == [kind |-> kind, val |-> val, num |-> num, msg |-> msg]
Unit == Ret("unit", <<>>, 0, "")
None == Ret("none", <<>>, 0, "")
Some(c) == Ret("some", <<c>>, 0, "")
CellsRet(s) == Ret("cells", s, 0, "")
Panic(msg, n) == Ret("panic", <<>>, n, msg)

\* panic::width_is_zero / panic::height_is_zero
WidthIsZero == Panic("width must not be 0", 0)
HeightIsZero == Panic("height must not be 0", 0)
\* panic::width / panic::height: name the dimension and the offending index
PanicWidth(val) == Panic("index out of bounds: width", val)
PanicHeight(val) == Panic("index out of bounds: height", val)
\* panic::fatal_len / panic::fatal_width_height
FatalLen == Panic("fatal error in cgol crate: len", 0)
FatalWidthHeight == Panic("fatal error in cgol crate: width or height are 0", 0)

IsPanic(r) == r.kind = "panic"

-----------------------------------------------------------------------------
(* Game::new *)

\* a plausible slip: the scratch buffer allocated one cell short
NewScratchShort(c) == IF Len(c) > 0 THEN SubSeq(c, 1, Len(c) - 1) ELSE c

\* let next = cells.clone();
NewScratch(c) == c

\* a plausible slip: only the multiplication's overflow is checked
NewWordOverflowOnly(w, h) ==
    IF w = 0 THEN [panic |-> WidthIsZero, width |-> 0, height |-> 0, cells |-> <<>>, next |-> <<>>]
    ELSE IF h = 0 THEN [panic |-> HeightIsZero, width |-> 0, height |-> 0, cells |-> <<>>, next |-> <<>>]
    ELSE IF w * h > UsizeMax
        THEN [panic |-> Panic("width * height overflow", 0),
              width |-> 0, height |-> 0, cells |-> <<>>, next |-> <<>>]
    ELSE [panic |-> Unit, width |-> w, height |-> h,
          cells |-> Repeat(Dead, w * h), next |-> NewScratch(Repeat(Dead, w * h))]

\* Game::new(width, height): the panic it raises (Unit when none) and the
\* Game's fields.  checked_mul fails above usize::MAX; vec![Cell::Dead; area]
\* fails above isize::MAX bytes (a Cell is one byte), which is why the doc
\* comment gives isize::MAX as the limit.
New(w, h) ==
    IF w = 0 THEN [panic |-> WidthIsZero, width |-> 0, height |-> 0, cells |-> <<>>, next |-> <<>>]
    ELSE IF h = 0 THEN [panic |-> HeightIsZero, width |-> 0, height |-> 0, cells |-> <<>>, next |-> <<>>]
    ELSE IF w * h > UsizeMax
        THEN [panic |-> Panic("width * height overflow", 0),
              width |-> 0, height |-> 0, cells |-> <<>>, next |-> <<>>]
    ELSE IF w * h > IsizeMax
        THEN [panic |-> Panic("capacity overflow", 0),
              width |-> 0, height |-> 0, cells |-> <<>>, next |-> <<>>]
    ELSE [panic |-> Unit, width |-> w, height |-> h,
          cells |-> Repeat(Dead, w * h), next |-> NewScratch(Repeat(Dead, w * h))]

-----------------------------------------------------------------------------
(* Game::tick *)

\* a plausible slip: the right neighbor is not wrapped at the last column
NeighborsNoWrapRight(w, up, row, down, col) ==
    LET col_max == w - 1
        left == IF col = 0 THEN col_max ELSE col - 1
        right == IF col = col_max THEN col ELSE col + 1
    IN  << up + left, up + col, up + right, row + right,
           down + right, down + col, down + left, row + left >>

\* a plausible slip: the left neighbor is not wrapped at the first column
NeighborsNoWrapLeft(w, up, row, down, col) ==
    LET col_max == w - 1
        left == IF col = 0 THEN col ELSE col - 1
        right == IF col = col_max THEN 0 ELSE col + 1
    IN  << up + left, up + col, up + right, row + right,
           down + right, down + col, down + left, row + left >>

\* the 8 flat offsets tick() reads for the cell in column col, where up, row
\* and down are the flat offsets of the first cell of the three rows
Neighbors(w, up, row, down, col) ==
    LET col_max == w - 1
        left == IF col = 0 THEN col_max ELSE col - 1
        right == IF col = col_max THEN 0 ELSE col + 1
    IN  << up + left, up + col, up + right, row + right,
           down + right, down + col, down + left, row + left >>

\* a plausible slip: the row below is not wrapped at the last row
RowBasesNoWrapDown(w, h, row) ==
    LET row_max == h - 1
        up == IF row = 0 THEN row_max ELSE row - 1
        down == row + 1
    IN  [up |-> up * w, row |-> row * w, down |-> down * w]

\* flat offsets of the first cell of the rows above, at and below row
RowBases(w, h, row) ==
    LET row_max == h - 1
        up == IF row = 0 THEN row_max ELSE row - 1
        down == IF row = row_max THEN 0 ELSE row + 1
    IN  [up |-> up * w, row |-> row * w, down |-> down * w]

\* neighbors.iter().fold(0u8, |i, &c| i + *self.cells.get_unchecked(c) as u8)
RECURSIVE FoldCount(_, _, _, _)
FoldCount(c, neighbors, k, acc) ==
    IF k > Len(neighbors) THEN acc
    ELSE FoldCount(c, neighbors, k + 1, (acc + CellAsInt(At(c, neighbors[k]))) % 256)

\* the match on neighbor_count
Rule(c, current_index, neighbor_count) ==
    IF neighbor_count = 3 THEN Alive
    ELSE IF neighbor_count = 2 THEN At(c, current_index)
    ELSE Dead

\* a plausible slip: the rule is evaluated against the buffer being written
TickCellInPlace(c, n, w, h, row, col, current_index) ==
    LET b == RowBases(w, h, row)
        neighbors == Neighbors(w, b.up, b.row, b.down, col)
        neighbor_count == FoldCount(n, neighbors, 1, 0)
    IN  SetAt(n, current_index, Rule(n, current_index, neighbor_count))

\* one iteration of the col loop: writes next[current_index]
TickCell(c, n, w, h, row, col, current_index) ==
    LET b == RowBases(w, h, row)
        neighbors == Neighbors(w, b.up, b.row, b.down, col)
        neighbor_count == FoldCount(c, neighbors, 1, 0)
    IN  SetAt(n, current_index, Rule(c, current_index, neighbor_count))

\* the row loop and the col loop, current_index incremented after each cell
RECURSIVE TickLoop(_, _, _, _, _, _, _)
TickLoop(c, n, w, h, row, col, current_index) ==
    IF row >= h THEN n
    ELSE IF col >= w THEN TickLoop(c, n, w, h, row + 1, 0, current_index)
    ELSE TickLoop(c, TickCell(c, n, w, h, row, col, current_index),
                  w, h, row, col + 1, current_index + 1)

\* a plausible slip: the scratch buffer is never copied back
PublishNothing(c, n) == c

\* self.cells.copy_from_slice(&self.next)
Publish(c, n) == n

\* the defensive checks at the start of tick(): the panic raised, Unit if none
TickGuard(c, n, w, h) ==
    LET area == w * h IN
    IF Len(c) # area \/ Len(n) # area THEN FatalLen
    ELSE IF w = 0 \/ h = 0 THEN FatalWidthHeight
    ELSE Unit

\* tick(): the defensive checks, the loops, the publish
TickResult(c, n, w, h) ==
    LET area == w * h IN
    IF Len(c) # area \/ Len(n) # area
        THEN [panic |-> FatalLen, cells |-> c, next |-> n]
    ELSE IF w = 0 \/ h = 0
        THEN [panic |-> FatalWidthHeight, cells |-> c, next |-> n]
    ELSE LET computed == TickLoop(c, n, w, h, 0, 0, 0)
         IN  [panic |-> Unit, cells |-> Publish(c, computed), next |-> computed]

-----------------------------------------------------------------------------
(* Queries and accessors of Game (self is the state) *)

\* width() / height() / area()
WidthOf == width
HeightOf == height
Area == Len(cells)

\* get(row, col)
Get(row, col) ==
    IF row < height /\ col < width THEN Some(At(cells, row * width + col)) ELSE None

\* a reference to the cell at flat index i
Ref(i) == Ret("ref", <<At(cells, i)>>, i, "")

\* impl Index<(usize, usize)>: fn index(&self, (col, row): (usize, usize)).
\* The first component of the pair is bound to col, the second to row.
Index(pair) ==
    LET col == pair[1]
        row == pair[2]
    IN  IF row >= height THEN PanicHeight(row)
        ELSE IF col >= width THEN PanicWidth(col)
        ELSE Ref(row * width + col)

\* get_row(row)
GetRow(row) ==
    IF row >= height THEN PanicHeight(row)
    ELSE LET begin == row * width
             end == begin + width
         IN  CellsRet(Slice(cells, begin, end))

\* slice.iter().copied(): the cells of the slice, front to back
RECURSIVE IterCopied(_)
IterCopied(s) == IF s = <<>> THEN <<>> ELSE <<Head(s)>> \o IterCopied(Tail(s))

\* row(row)
Row(row) ==
    LET r == GetRow(row) IN
    IF IsPanic(r) THEN r ELSE CellsRet(IterCopied(r.val))

\* Iterator::skip(n)
Skip(s, n) == IF n >= Len(s) THEN <<>> ELSE SubSeq(s, n + 1, Len(s))

\* Iterator::step_by(step): the first element, then every step-th after it
StepBy(s, step) == [k \in 1 .. ((Len(s) + step - 1) \div step) |-> s[(k - 1) * step + 1]]

\* a plausible slip: the stride is the height
ColStrideHeight(col) ==
    IF col >= width THEN PanicWidth(col)
    ELSE CellsRet(StepBy(Skip(IterCopied(cells), col), height))

\* col(col)
Col(col) ==
    IF col >= width THEN PanicWidth(col)
    ELSE CellsRet(StepBy(Skip(IterCopied(cells), col), width))

\* all_dead() / all_alive()
AllDead == \A k \in 1 .. Len(cells) : cells[k] = Dead
AllAlive == \A k \in 1 .. Len(cells) : cells[k] = Alive

-----------------------------------------------------------------------------
(* Bulk operations *)

\* a plausible slip: the first cell is skipped
InvertSkipFirst(c) == [k \in 1 .. Len(c) |-> IF k = 1 THEN c[k] ELSE NotCell(c[k])]

\* invert(): for cell in &mut self.cells { *cell = !*cell }
InvertCells(c) == [k \in 1 .. Len(c) |-> NotCell(c[k])]

\* clear(): self.cells.fill(Cell::Dead)
ClearCells(c) == [k \in 1 .. Len(c) |-> Dead]

-----------------------------------------------------------------------------
(* The constructor as an operation *)

\* no tick() is running
Idle == [pc |-> "idle", row |-> 0, col |-> 0, current_index |-> 0]

NoGame ==
    /\ width = 0 /\ height = 0 /\ cells = <<>> /\ next = <<>>
    /\ op = "none" /\ args = <<>> /\ ret = Unit
    /\ frame = Idle

\* Game::new(w, h) called; a panic leaves no Game behind
NewCall(w, h) ==
    LET g == New(w, h) IN
    /\ op = "none"
    /\ width' = g.width /\ height' = g.height
    /\ cells' = g.cells /\ next' = g.next
    /\ op' = "new" /\ args' = <<w, h>>
    /\ ret' = IF IsPanic(g.panic) THEN g.panic ELSE Ret("game", g.cells, w * h, "")
    /\ UNCHANGED frame

\* the state right after a successful Game::new(w, h)
Constructed(w, h) ==
    LET g == New(w, h) IN
    /\ ~IsPanic(g.panic)
    /\ width = g.width /\ height = g.height
    /\ cells = g.cells /\ next = g.next
    /\ op = "new" /\ args = <<w, h>>
    /\ ret = Ret("game", g.cells, w * h, "")
    /\ frame = Idle

\* the dimensions a Game is constructed with, up to an area
Dims(maxArea) == {d \in (1 .. MaxDim) \X (1 .. MaxDim) : d[1] * d[2] <= maxArea}

\* the coordinates callers pass: every valid one and some beyond the grid
Coord == 0 .. MaxDim

-----------------------------------------------------------------------------
(* Mutating operations *)

\* tick()
Tick ==
    \E t \in {TickResult(cells, next, width, height)} :
    /\ cells' = t.cells /\ next' = t.next
    /\ op' = "tick" /\ args' = <<>> /\ ret' = t.panic
    /\ UNCHANGED <<frame, width, height>>

\* clear()
Clear ==
    /\ cells' = ClearCells(cells)
    /\ op' = "clear" /\ args' = <<>> /\ ret' = Unit
    /\ UNCHANGED <<frame, width, height, next>>

\* invert()
Invert ==
    /\ cells' = InvertCells(cells)
    /\ op' = "invert" /\ args' = <<>> /\ ret' = Unit
    /\ UNCHANGED <<frame, width, height, next>>

\* game[(a, b)] = v
IndexMut(a, b, v) ==
    LET r == Index(<<a, b>>) IN
    /\ cells' = IF IsPanic(r) THEN cells ELSE SetAt(cells, r.num, v)
    /\ op' = "index_mut" /\ args' = <<>>
    /\ ret' = IF IsPanic(r) THEN r ELSE Unit
    /\ UNCHANGED <<frame, width, height, next>>

\* if let Some(cell) = game.get_mut(row, col) { *cell = v }
GetMut(row, col, v) ==
    /\ cells' = IF row < height /\ col < width
                THEN SetAt(cells, row * width + col, v) ELSE cells
    /\ op' = "get_mut" /\ args' = <<>>
    /\ ret' = IF row < height /\ col < width THEN Unit ELSE None
    /\ UNCHANGED <<frame, width, height, next>>

\* game.get_row_mut(row)[k] = v, for k within the slice
GetRowMut(row, k, v) ==
    /\ k < width
    /\ cells' = IF row >= height THEN cells ELSE SetAt(cells, row * width + k, v)
    /\ op' = "get_row_mut" /\ args' = <<>>
    /\ ret' = IF row >= height THEN PanicHeight(row) ELSE Unit
    /\ UNCHANGED <<frame, width, height, next>>

\* for (cell, v) in game.row_mut(row).zip(vals) { *cell = v }
RowMut(row, vals) ==
    /\ cells' = IF row >= height THEN cells
                ELSE [k \in 1 .. Len(cells) |->
                        IF k - 1 >= row * width /\ k - 1 < row * width + width
                        THEN vals[k - row * width] ELSE cells[k]]
    /\ op' = "row_mut" /\ args' = <<>>
    /\ ret' = IF row >= height THEN PanicHeight(row) ELSE Unit
    /\ UNCHANGED <<frame, width, height, next>>

\* the flat indices cells.iter_mut().skip(col).step_by(width) visits
ColIndices(col) == StepBy(Skip([k \in 1 .. Len(cells) |-> k - 1], col), width)

\* for (cell, v) in game.col_mut(col).zip(vals) { *cell = v }
ColMut(col, vals) ==
    /\ cells' = IF col >= width THEN cells
                ELSE LET idx == ColIndices(col) IN
                     [k \in 1 .. Len(cells) |->
                        IF \E j \in 1 .. Len(idx) : idx[j] = k - 1
                        THEN vals[CHOOSE j \in 1 .. Len(idx) : idx[j] = k - 1]
                        ELSE cells[k]]
    /\ op' = "col_mut" /\ args' = <<>>
    /\ ret' = IF col >= width THEN PanicWidth(col) ELSE Unit
    /\ UNCHANGED <<frame, width, height, next>>

-----------------------------------------------------------------------------
(* Read-only operations *)

BoolRet(b) == Ret("bool", <<>>, IF b THEN 1 ELSE 0, "")
IntRet(n) == Ret("int", <<>>, n, "")

Read(name, a, r) ==
    /\ op' = name /\ args' = a /\ ret' = r
    /\ UNCHANGED <<frame, width, height, cells, next>>

IndexCall(a, b) == Read("index", <<a, b>>, Index(<<a, b>>))
GetCall(row, col) == Read("get", <<row, col>>, Get(row, col))
GetRowCall(row) == Read("get_row", <<row>>, GetRow(row))
RowCall(row) == Read("row", <<row>>, Row(row))
ColCall(col) == Read("col", <<col>>, Col(col))
AllDeadCall == Read("all_dead", <<>>, BoolRet(AllDead))
AllAliveCall == Read("all_alive", <<>>, BoolRet(AllAlive))
WidthCall == Read("width", <<>>, IntRet(WidthOf))
HeightCall == Read("height", <<>>, IntRet(HeightOf))
AreaCall == Read("area", <<>>, IntRet(Area))

-----------------------------------------------------------------------------
(* Spec: a Game is constructed, then mutated by every mutating operation,  *)
(* called with valid and with out-of-bounds coordinates.                   *)

Init == \E d \in Dims(MaxOpsArea) : Constructed(d[1], d[2])

WriteIndexMut == \E a \in Coord, b \in Coord, v \in Cell : IndexMut(a, b, v)
WriteGetMut == \E r \in Coord, c \in Coord, v \in Cell : GetMut(r, c, v)
WriteGetRowMut == \E r \in Coord, k \in Coord, v \in Cell : GetRowMut(r, k, v)
WriteRowMut == \E r \in Coord, vals \in [1 .. width -> Cell] : RowMut(r, vals)
WriteColMut == \E c \in Coord, vals \in [1 .. height -> Cell] : ColMut(c, vals)

Next ==
    \/ Tick
    \/ Clear
    \/ Invert
    \/ WriteIndexMut
    \/ WriteGetMut
    \/ WriteGetRowMut
    \/ WriteRowMut
    \/ WriteColMut

Spec == Init /\ [][Next]_vars

-----------------------------------------------------------------------------
(* SpecTick: generations on grids up to MaxDim x MaxDim; cells are written *)
(* one at a time between ticks, so the scratch buffer holds stale cells.   *)

InitTick == \E d \in Dims(MaxArea) : Constructed(d[1], d[2])

WriteCell == \E a \in 0 .. width - 1, b \in 0 .. height - 1, v \in Cell : IndexMut(a, b, v)

NextTick ==
    \/ Tick
    \/ Clear
    \/ Invert
    \/ WriteCell

SpecTick == InitTick /\ [][NextTick]_vars

-----------------------------------------------------------------------------
(* SpecAccess: a Game is written to and read through every accessor, with  *)
(* valid and with out-of-bounds coordinates.                               *)

ReadIndex == \E a \in Coord, b \in Coord : IndexCall(a, b)
ReadGet == \E r \in Coord, c \in Coord : GetCall(r, c)
ReadGetRow == \E r \in Coord : GetRowCall(r)
ReadRow == \E r \in Coord : RowCall(r)
ReadCol == \E c \in Coord : ColCall(c)

NextAccess ==
    \/ WriteIndexMut
    \/ WriteGetMut
    \/ ReadIndex
    \/ ReadGet
    \/ ReadGetRow
    \/ ReadRow
    \/ ReadCol
    \/ AllDeadCall
    \/ AllAliveCall
    \/ WidthCall
    \/ HeightCall
    \/ AreaCall

SpecAccess == Init /\ [][NextAccess]_vars

-----------------------------------------------------------------------------
(* SpecNew: Game::new called with every pair of machine words *)

Word == 0 .. UsizeMax

NextNew == \E w \in Word, h \in Word : NewCall(w, h)

SpecNew == NoGame /\ [][NextNew]_vars

-----------------------------------------------------------------------------
(* SpecCell: the conversions between Cell and the integer types *)

\* Cell::from(i) for an integer i of type ty
CellFromIntCall(ty, i) ==
    /\ op' = IF ty = "signed" THEN "cell_from_signed" ELSE "cell_from_unsigned"
    /\ args' = <<i>>
    /\ ret' = Some(CellFromInt(i))
    /\ UNCHANGED <<frame, width, height, cells, next>>

\* <$i>::from(c) for a cell c
IntFromCellCall(ty, c) ==
    /\ op' = IF ty = "signed" THEN "signed_from_cell" ELSE "unsigned_from_cell"
    /\ args' = <<c>>
    /\ ret' = IntRet(IntFromCell(c))
    /\ UNCHANGED <<frame, width, height, cells, next>>

ConvertFromInt == \E ty \in IntType : \E i \in IntValues(ty) : CellFromIntCall(ty, i)
ConvertToInt == \E ty \in IntType, c \in Cell : IntFromCellCall(ty, c)

NextCell ==
    \/ ConvertFromInt
    \/ ConvertToInt

SpecCell == NoGame /\ [][NextCell]_vars

-----------------------------------------------------------------------------
(* SpecNeighbors: the neighbor offsets tick() computes for one cell *)

\* the neighbors array of the loop iteration at (row, col) of a w x h grid
NeighborsCall(w, h, row, col) ==
    LET b == RowBases(w, h, row) IN
    /\ op' = "neighbors" /\ args' = <<w, h, row, col>>
    /\ ret' = Ret("offsets", Neighbors(w, b.up, b.row, b.down, col), row * w + col, "")
    /\ UNCHANGED <<frame, width, height, cells, next>>

NextNeighbors ==
    \E w \in 1 .. MaxNbrDim, h \in 1 .. MaxNbrDim :
        \E row \in 0 .. h - 1, col \in 0 .. w - 1 : NeighborsCall(w, h, row, col)

SpecNeighbors == NoGame /\ [][NextNeighbors]_vars

-----------------------------------------------------------------------------
(* SpecBlock: live cells are written inside one 2x2 block of an otherwise  *)
(* dead grid, and the grid is ticked.                                      *)

\* the flat indices of the 2x2 block whose top left cell is (r0, c0)
BlockCells(w, h, r0, c0) ==
    {((r0 + dr) % h) * w + ((c0 + dc) % w) : dr \in {0, 1}, dc \in {0, 1}}

AliveSet(c) == {k - 1 : k \in {j \in 1 .. Len(c) : c[j] = Alive}}

\* the live cells are exactly one 2x2 block
IsBlock(c, w, h) ==
    /\ w >= 2 /\ h >= 2
    /\ \E r0 \in 0 .. h - 1, c0 \in 0 .. w - 1 : AliveSet(c) = BlockCells(w, h, r0, c0)

InitBlock == \E w \in 2 .. MaxBlockDim, h \in 2 .. MaxBlockDim : Constructed(w, h)

WriteBlockCell ==
    \E a \in 0 .. width - 1, b \in 0 .. height - 1 :
        /\ IndexMut(a, b, Alive)
        /\ \E r0 \in 0 .. height - 1, c0 \in 0 .. width - 1 :
               AliveSet(cells') \subseteq BlockCells(width, height, r0, c0)

NextBlock ==
    \/ WriteBlockCell
    \/ Tick

SpecBlock == InitBlock /\ [][NextBlock]_vars

-----------------------------------------------------------------------------
(* SpecSteps: tick() one loop iteration at a time.  The call is            *)
(* synchronous: nothing else runs on the Game until it returns, and it     *)
(* keeps running until it does (weak fairness of its steps).  Grids up to  *)
(* MaxNbrDim x MaxNbrDim are cleared, inverted and ticked; cells are       *)
(* written one at a time on the grids of area up to MaxOpsArea.            *)

\* tick() has been called and has not returned
Running == Ret("running", <<>>, 0, "")

\* tick() is called: the defensive checks, then current_index = 0 and the
\* loops are entered
TickBegin ==
    /\ frame.pc = "idle"
    /\ op' = "tick" /\ args' = <<>>
    /\ \E g \in {TickGuard(cells, next, width, height)} :
        /\ ret' = IF IsPanic(g) THEN g ELSE Running
        /\ frame' = IF IsPanic(g) THEN frame
                    ELSE [pc |-> "loop", row |-> 0, col |-> 0, current_index |-> 0]
    /\ UNCHANGED <<width, height, cells, next>>

\* one iteration of the col loop, then current_index += 1; after the last
\* column the row loop moves on
TickCellStep ==
    /\ frame.pc = "loop"
    /\ frame.row < height /\ frame.col < width
    /\ next' = TickCell(cells, next, width, height,
                        frame.row, frame.col, frame.current_index)
    /\ frame' = IF frame.col + 1 < width
                THEN [frame EXCEPT !.col = @ + 1, !.current_index = @ + 1]
                ELSE [frame EXCEPT !.row = @ + 1, !.col = 0, !.current_index = @ + 1]
    /\ UNCHANGED <<width, height, cells, op, args, ret>>

\* the loops are over: copy_from_slice, and tick() returns
TickPublish ==
    /\ frame.pc = "loop"
    /\ frame.row >= height
    /\ cells' = Publish(cells, next)
    /\ frame' = Idle
    /\ ret' = Unit
    /\ UNCHANGED <<width, height, next, op, args>>

InitSteps == \E w \in 1 .. MaxNbrDim, h \in 1 .. MaxNbrDim : Constructed(w, h)

StepWriteCell ==
    /\ frame.pc = "idle"
    /\ width * height <= MaxOpsArea
    /\ \E a \in 0 .. width - 1, b \in 0 .. height - 1, v \in Cell : IndexMut(a, b, v)

StepClear == frame.pc = "idle" /\ Clear
StepInvert == frame.pc = "idle" /\ Invert

NextSteps ==
    \/ TickBegin
    \/ TickCellStep
    \/ TickPublish
    \/ StepWriteCell
    \/ StepClear
    \/ StepInvert

SpecSteps ==
    /\ InitSteps
    /\ [][NextSteps]_vars
    /\ WF_vars(TickCellStep)
    /\ WF_vars(TickPublish)

-----------------------------------------------------------------------------
(* The next generation, by the rule: coordinates modulo the dimensions *)

\* the 8 neighbor positions in the order tick() lists them
Offsets == << <<-1, -1>>, <<-1, 0>>, <<-1, 1>>, <<0, 1>>,
             <<1, 1>>, <<1, 0>>, <<1, -1>>, <<0, -1>> >>

LiveNeighbors(c, w, h, row, col) ==
    LET alive(k) == CellAsInt(c[((row + Offsets[k][1] + h) % h) * w
                                + ((col + Offsets[k][2] + w) % w) + 1])
    IN  alive(1) + alive(2) + alive(3) + alive(4) + alive(5) + alive(6) + alive(7) + alive(8)

NextGeneration(c, w, h) ==
    [k \in 1 .. w * h |->
        LET n == LiveNeighbors(c, w, h, (k - 1) \div w, (k - 1) % w)
        IN  IF n = 3 THEN Alive ELSE IF n = 2 THEN c[k] ELSE Dead]

-----------------------------------------------------------------------------
(* Claims *)

\* C1: whatever public operations came before (cell writes, clear, invert,
\* earlier ticks, so whatever the scratch buffer holds), a tick() replaces the
\* grid by the next generation of the whole pre-tick grid: a cell with 3 live
\* neighbors among its 8 toroidal positions is Alive, one with 2 keeps its
\* state, every other cell is Dead.
C1_TickIsNextGeneration ==
    [][op' = "tick" =>
        /\ ret' = Unit
        /\ cells' = NextGeneration(cells, width, height)]_vars

\* C1 witness: a tick on a 3x3 grid that left (0, 0) Alive
C1_Witness ==
    /\ op = "tick" /\ ret = Unit
    /\ width = 3 /\ height = 3
    /\ cells[1] = Alive

\* C2 as stated: a 2x2 block of Alive cells on an otherwise dead grid with
\* width >= 2 and height >= 2 is unchanged by tick().
C2_BlockStillLifeFrom2 ==
    [][(op' = "tick" /\ IsBlock(cells, width, height) /\ width >= 2 /\ height >= 2)
        => cells' = cells]_vars

\* C2 amended: a 2x2 block of Alive cells on an otherwise dead grid with
\* width >= 3 and height >= 3 is unchanged by tick().
C2_BlockStillLifeFrom3 ==
    [][(op' = "tick" /\ IsBlock(cells, width, height) /\ width >= 3 /\ height >= 3)
        => cells' = cells]_vars

\* C2 witness: a tick on a grid of width and height >= 3 that ended with a
\* 2x2 block in the grid and in the scratch buffer
C2_Witness ==
    /\ op = "tick" /\ ret = Unit
    /\ width >= 3 /\ height >= 3
    /\ IsBlock(cells, width, height)
    /\ next = cells

\* C3 as stated: for every pair (row, col) with row >= height or col >= width,
\* game[(row, col)] panics (Index and IndexMut) and get(row, col) /
\* get_mut(row, col) return None; indexing panics exactly when get returns
\* None; the grid is unchanged.
C3_OutOfBoundsAgree ==
    /\ [](op = "index" =>
            /\ (args[1] >= height \/ args[2] >= width) => IsPanic(ret)
            /\ IsPanic(ret) <=> Get(args[1], args[2]) = None)
    /\ [](op = "get" =>
            ((args[1] >= height \/ args[2] >= width) => ret = None))
    /\ [][\A row \in Coord, col \in Coord, v \in Cell :
            (row >= height \/ col >= width) =>
                /\ IndexMut(row, col, v) => (IsPanic(ret') /\ cells' = cells)
                /\ GetMut(row, col, v) => (ret' = None /\ cells' = cells)]_vars

\* C4 as stated: for every row < height and col < width, game[(row, col)]
\* succeeds and refers to the cell at flat index row * width + col, the cell
\* get(row, col) returns; a value written through index_mut at (row, col) is
\* read back by get(row, col) and is at position col of get_row(row).
C4_IndexIsRowMajor ==
    /\ [](op = "index" /\ args[1] < height /\ args[2] < width =>
            /\ ret.kind = "ref"
            /\ ret.num = args[1] * width + args[2]
            /\ Some(ret.val[1]) = Get(args[1], args[2]))
    /\ [][\A row \in Coord, col \in Coord, v \in Cell :
            (row < height /\ col < width /\ IndexMut(row, col, v)) =>
                /\ ret' = Unit
                /\ Get(row, col)' = Some(v)
                /\ GetRow(row)'.val[col + 1] = v]_vars

\* C5 as stated: new(width, height) panics exactly when width = 0, height = 0
\* or width * height >= 2^WordBits; otherwise the Game has the given width and
\* height, area width * height, and both buffers hold width * height Dead cells.
C5_NewFailsOnWordOverflow ==
    op = "new" =>
        LET w == args[1]
            h == args[2]
        IN  /\ IsPanic(ret) <=> (w = 0 \/ h = 0 \/ w * h >= 2^WordBits)
            /\ ~IsPanic(ret) =>
                /\ WidthOf = w /\ HeightOf = h /\ Area = w * h
                /\ cells = Repeat(Dead, w * h) /\ next = Repeat(Dead, w * h)

\* C5 amended: new(width, height) panics exactly when width = 0, height = 0 or
\* width * height > isize::MAX = 2^(WordBits - 1) - 1; otherwise the Game has
\* the given width and height, area width * height, and both buffers hold
\* width * height Dead cells.
C5_NewFailsAboveIsizeMax ==
    op = "new" =>
        LET w == args[1]
            h == args[2]
        IN  /\ IsPanic(ret) <=> (w = 0 \/ h = 0 \/ w * h > 2^(WordBits - 1) - 1)
            /\ ~IsPanic(ret) =>
                /\ WidthOf = w /\ HeightOf = h /\ Area = w * h
                /\ Len(cells) = w * h /\ Len(next) = w * h
                /\ \A k \in 1 .. w * h : cells[k] = Dead /\ next[k] = Dead

\* C5 witness: new panicked on a product that fits the machine word
C5_Witness ==
    /\ op = "new" /\ IsPanic(ret)
    /\ args[1] > 0 /\ args[2] > 0
    /\ args[1] * args[2] < 2^WordBits

\* C6: for row r < height and column c < width, row(r) yields the width cells
\* (r, 0), (r, 1), ..., col(c) yields the height cells (0, c), (1, c), ... (flat
\* indices c, c + width, ...), and row(r) yields what get_row(r) returns.
C6_RowAndColViews ==
    /\ (op = "row" /\ args[1] < height) =>
            /\ ret.kind = "cells" /\ Len(ret.val) = width
            /\ \A k \in 0 .. width - 1 :
                    /\ ret.val[k + 1] = At(cells, args[1] * width + k)
                    /\ Some(ret.val[k + 1]) = Get(args[1], k)
            /\ ret = GetRow(args[1])
    /\ (op = "get_row" /\ args[1] < height) =>
            /\ ret.kind = "cells" /\ Len(ret.val) = width
            /\ \A k \in 0 .. width - 1 : ret.val[k + 1] = At(cells, args[1] * width + k)
    /\ (op = "col" /\ args[1] < width) =>
            /\ ret.kind = "cells" /\ Len(ret.val) = height
            /\ \A k \in 0 .. height - 1 :
                    /\ ret.val[k + 1] = At(cells, args[1] + k * width)
                    /\ Some(ret.val[k + 1]) = Get(k, args[1])

\* C6 witness: col(1) of a 3 wide, 2 high grid yielded Dead then Alive
C6_Witness ==
    /\ op = "col" /\ args = <<1>>
    /\ width = 3 /\ height = 2
    /\ ret = CellsRet(<<Dead, Alive>>)

\* C7: clear() leaves every cell Dead, so all_dead() holds; invert() flips
\* every cell, so on an all-Dead grid it makes all_alive() hold, and a second
\* invert() restores the cells; all_dead() and all_alive() never both hold;
\* clear() and invert() keep width and height.
C7_ClearAndInvert ==
    /\ [](~(AllDead /\ AllAlive))
    /\ [][op' = "clear" =>
            /\ Len(cells') = Len(cells)
            /\ \A k \in 1 .. Len(cells) : cells'[k] = Dead
            /\ AllDead'
            /\ width' = width /\ height' = height]_vars
    /\ [][op' = "invert" =>
            /\ Len(cells') = Len(cells)
            /\ \A k \in 1 .. Len(cells) : cells'[k] # cells[k]
            /\ AllDead => AllAlive'
            /\ InvertCells(cells') = cells
            /\ width' = width /\ height' = height]_vars

\* C7 witness: an invert() that left a 3 wide, 2 high grid all Alive
C7_Witness ==
    /\ op = "invert"
    /\ width = 3 /\ height = 2
    /\ AllAlive

\* C8 as stated: a Cell built from an integer of any type, signed or unsigned,
\* is Alive for every nonzero value and Dead for zero; a Cell converts to 1 for
\* Alive and 0 for Dead, and converting that integer back gives the Cell.
C8_NonzeroIsAlive ==
    /\ op \in {"cell_from_signed", "cell_from_unsigned"} =>
            ret = Some(IF args[1] # 0 THEN Alive ELSE Dead)
    /\ op \in {"signed_from_cell", "unsigned_from_cell"} =>
            /\ ret = IntRet(IF args[1] = Alive THEN 1 ELSE 0)
            /\ CellFromInt(ret.num) = args[1]

\* C8 amended: a Cell built from an integer of any type is Alive for every
\* value greater than zero and Dead for zero and for every negative value; a
\* Cell converts to 1 for Alive and 0 for Dead, and converting that integer
\* back gives the Cell.
C8_PositiveIsAlive ==
    /\ op \in {"cell_from_signed", "cell_from_unsigned"} =>
            ret = Some(IF args[1] > 0 THEN Alive ELSE Dead)
    /\ op \in {"signed_from_cell", "unsigned_from_cell"} =>
            /\ ret = IntRet(IF args[1] = Alive THEN 1 ELSE 0)
            /\ CellFromInt(ret.num) = args[1]

\* C8 witness: a Cell built from a negative integer is Dead
C8_Witness ==
    /\ op = "cell_from_signed"
    /\ args[1] < 0
    /\ ret = Some(Dead)

\* the offsets of a neighbors array, as a set
OffsetSet(nb) == {nb[k] : k \in 1 .. Len(nb)}

\* C9 as stated: for every grid with width > 0 and height > 0 and every cell,
\* the 8 neighbor offsets tick() counts are 8 distinct cells, none of them the
\* cell itself.
C9_EightDistinctNeighbors ==
    op = "neighbors" =>
        /\ Cardinality(OffsetSet(ret.val)) = 8
        /\ ret.num \notin OffsetSet(ret.val)

\* C9 amended: for every grid with width >= 3 and height >= 3 and every cell,
\* the 8 neighbor offsets tick() counts are 8 distinct cells, none of them the
\* cell itself.
C9_EightDistinctNeighborsFrom3 ==
    (op = "neighbors" /\ args[1] >= 3 /\ args[2] >= 3) =>
        /\ Len(ret.val) = 8
        /\ Cardinality(OffsetSet(ret.val)) = 8
        /\ ret.num \notin OffsetSet(ret.val)

\* C9 witness: the neighbors of the last cell of a 3x3 grid, wrapped on both axes
C9_Witness ==
    /\ op = "neighbors" /\ args = <<3, 3, 2, 2>>
    /\ OffsetSet(ret.val) = 0 .. 7

\* C10: after a successful new(width, height), under every mutating operation,
\* width and height keep their construction values and are positive,
\* cells.len() = next.len() = width * height, and tick() never raises
\* fatal_len or fatal_width_height.
C10_ShapeInvariant ==
    /\ [](/\ width > 0 /\ height > 0
          /\ Len(cells) = width * height
          /\ Len(next) = width * height
          /\ op = "new" => args = <<width, height>>
          /\ ret # FatalLen /\ ret # FatalWidthHeight
          /\ op = "tick" => ret = Unit)
    /\ [][width' = width /\ height' = height]_vars

\* C10 witness: a tick() went through on a 2 wide, 3 high grid written to before
C10_Witness ==
    /\ op = "tick" /\ ret = Unit
    /\ width = 2 /\ height = 3
    /\ ~AllDead
    /\ next = cells

\* C11: with tick() taken one cell at a time, the loops start at index 0; each
\* compute step leaves cells alone and writes next at current_index only, then
\* moves to the next index, so the indices 0 .. width * height - 1 are written
\* once each in increasing order; cells changes only in the publish step, which
\* comes after the last index and replaces cells by the next generation of the
\* cells it held all along; and a tick() that has started reaches the publish
\* step and returns.
C11_ComputeThenPublish ==
    /\ [][(frame.pc = "idle" /\ frame'.pc = "loop") =>
            /\ frame'.current_index = 0
            /\ cells' = cells /\ next' = next]_vars
    /\ [][(frame.pc = "loop" /\ frame'.pc = "loop") =>
            /\ cells' = cells
            /\ frame.current_index < width * height
            /\ frame'.current_index = frame.current_index + 1
            /\ Len(next') = Len(next)
            /\ \A i \in 0 .. width * height - 1 :
                    i # frame.current_index => At(next', i) = At(next, i)]_vars
    /\ [][(frame.pc = "loop" /\ frame'.pc = "idle") =>
            /\ frame.current_index = width * height
            /\ cells' = NextGeneration(cells, width, height)
            /\ cells' = next /\ next' = next
            /\ op' = "tick" /\ ret' = Unit]_vars
    /\ [][(frame.pc = "loop" /\ cells' # cells) => frame'.pc = "idle"]_vars
    /\ (frame.pc = "loop") ~> (frame.pc = "idle" /\ op = "tick" /\ ret = Unit)

\* C11 witness: half way through a tick() of a 3 wide, 2 high grid, the scratch
\* buffer already differs from the cells
C11_Witness ==
    /\ frame.pc = "loop" /\ frame.current_index = 3
    /\ width = 3 /\ height = 2
    /\ ~AllDead
    /\ next # cells

\* C12: in every iteration of tick()'s loops, the 8 neighbor offsets and
\* current_index are in 0 .. width * height - 1, current_index is
\* row * width + col, and the neighbor count is the number of live neighbors,
\* at most 8, so the u8 sum never wraps.
C12_OffsetsInBounds ==
    (frame.pc = "loop" /\ frame.row < height) =>
        LET b == RowBases(width, height, frame.row)
            neighbors == Neighbors(width, b.up, b.row, b.down, frame.col)
        IN  /\ width > 0 /\ height > 0
            /\ frame.col < width
            /\ Len(neighbors) = 8
            /\ \A k \in 1 .. 8 : neighbors[k] >= 0 /\ neighbors[k] < width * height
            /\ frame.current_index >= 0 /\ frame.current_index < width * height
            /\ frame.current_index < Len(next) /\ width * height = Len(cells)
            /\ frame.current_index = frame.row * width + frame.col
            /\ FoldCount(cells, neighbors, 1, 0) <= 8
            /\ FoldCount(cells, neighbors, 1, 0)
                    = LiveNeighbors(cells, width, height, frame.row, frame.col)

\* C12 witness: the iteration for the last cell of an all Alive grid, whose
\* offsets wrap on both axes and whose count is 8
C12_Witness ==
    /\ frame.pc = "loop"
    /\ width >= 3 /\ height >= 3
    /\ frame.row = height - 1 /\ frame.col = width - 1
    /\ AllAlive

-----------------------------------------------------------------------------
(* Two Games *)

\* struct Game
Game(c, n, w, h) == [cells |-> c, next |-> n, width |-> w, height |-> h]

\* #[derive(PartialEq, Eq)] on struct Game: every field is compared
GameEq(g1, g2) ==
    /\ g1.cells = g2.cells
    /\ g1.next = g2.next
    /\ g1.width = g2.width
    /\ g1.height = g2.height

\* g after *g.get_mut(row, col).unwrap() = c[row * width + col] for every
\* cell from flat index i on
RECURSIVE WriteCellsFrom(_, _, _)
WriteCellsFrom(g, c, i) ==
    IF i >= Len(g.cells) THEN g
    ELSE WriteCellsFrom([g EXCEPT !.cells = SetAt(@, i, At(c, i))], c, i + 1)

\* the Game built by new(w, h) and one write per cell, never ticked
BuiltByWrites(c, w, h) ==
    LET g == New(w, h) IN WriteCellsFrom(Game(g.cells, g.next, g.width, g.height), c, 0)

\* C13 as stated: two Games with the same width, height and cells, however
\* they were produced, cannot be told apart by any public operation, == among
\* them: here the Game the operations so far produced and the Game built by
\* new and cell writes alone, which has the same width, height and cells.
C13_ScratchUnobservable ==
    frame.pc = "idle" =>
        LET mine == Game(cells, next, width, height)
            other == BuiltByWrites(cells, width, height)
        IN  (other.width = width /\ other.height = height /\ other.cells = cells)
                => GameEq(mine, other)

====
